---- MODULE Spec2Model ----
(***************************************************************************)
(* Model of the three inventory scripts of Classic-EMU:                    *)
(*   "details"   = fetch_repo_details.py                                   *)
(*   "inventory" = fetch_repo_details_inventory.py                         *)
(*   "list"      = fetch_repo_list.py                                      *)
(* One step of the model is one HTTP request with the handling of its      *)
(* response, or one step of the calling code between two requests.         *)
(* The remote API is the environment: it holds listings (srv) and answers  *)
(* each request with a response drawn from Responses.                      *)
(***************************************************************************)
EXTENDS Integers, Sequences, FiniteSets, TLC

VARIABLES
    script,     \* which of the three scripts runs
    entry,      \* the function under execution at top level ("main" = the script)
    env,        \* configuration read from the environment: [org, token] present or not
    srv,        \* what the remote API holds
    faultsLeft, \* how many non-success responses the remote API may still give
    pc,         \* location of the calling code
    api,        \* activation of github_api_get (or of the request loop of get_github_repos)
    loc,        \* locals of the paginator / aggregator function in progress
    repos,      \* result of the organization listing
    idx,        \* position of main's loop over repos
    row,        \* values computed so far for the current repository
    report,     \* the report file: [created, header, rows]
    log,        \* error log: sequence of entries
    anyRequest, \* whether any HTTP request has been issued
    exit        \* exit status of the process: "running", "0", "1", "crash"

vars == <<script, entry, env, srv, faultsLeft, pc, api, loc, repos, idx, row,
          report, log, anyRequest, exit>>

(***************************************************************************)
(* Bounds of the model and constants of the program.                       *)
(***************************************************************************)
PerPage == 100
MaxRetriesDetails == 5
MaxRetriesInventory == 3
ServerDefaultPerPage == 30
MaxPages == 2
MaxRepos == 2
MaxClientFaults == 6
MaxPageFaults == 1
MaxMainFaults == 1

Scripts == {"details", "inventory", "list"}

(***************************************************************************)
(* Python values.  None, a JSON list (of item numbers) and a JSON object.  *)
(***************************************************************************)
None == [tag |-> "None", items |-> <<>>]
List(s) == [tag |-> "list", items |-> s]
Dict(k) == [tag |-> "dict", items |-> <<k>>]
\* Python truthiness: None, [] and {} are false.
Truthy(v) == v.tag # "None" /\ v.items # <<>>
\* len() of a list or dict
PyLen(v) == Len(v.items)

Min(a, b) == IF a < b THEN a ELSE b
Max(a, b) == IF a > b THEN a ELSE b

RECURSIVE Count(_, _)
Count(s, x) == IF s = <<>> THEN 0
               ELSE (IF Head(s) = x THEN 1 ELSE 0) + Count(Tail(s), x)

(***************************************************************************)
(* The remote API.  A listing of n items is served in pages; an absent     *)
(* per_page (0) means the server's default page size, an absent page (0)   *)
(* means page 1.                                                           *)
(***************************************************************************)
PageOf(total, per_page, page) ==
    LET pp == IF per_page = 0 THEN ServerDefaultPerPage ELSE per_page
        p == IF page = 0 THEN 1 ELSE page
        first == (p - 1) * pp
        len == Max(0, Min(pp, total - first))
    IN [i \in 1..len |-> first + i]

\* The listing a request addresses.
Total(url, state) ==
    CASE url = "repos" -> srv.repos
      [] url = "pulls" /\ state = "open" -> srv.pulls_open
      [] url = "pulls" /\ state = "closed" -> srv.pulls_closed
      [] url = "issues" /\ state = "open" -> srv.issues_open
      [] url = "issues" /\ state = "closed" -> srv.issues_closed
      [] url = "branches" -> srv.branches
      [] url = "tags" -> srv.tags
      [] url = "commits" -> srv.commits
      [] url = "releases" -> srv.releases
      [] OTHER -> 0

\* The decoded body of a success response to the request of activation a.
Body(a) ==
    CASE a.url = "pull" -> Dict(a.number)    \* one pull request, by number
      [] a.url = "commit" -> Dict(1)         \* the commit a ref points to
      [] OTHER -> List(PageOf(Total(a.url, a.state), a.per_page, a.page))

\* A response: an HTTP response with the parts the scripts look at, or an
\* exception raised by requests.get.  reset is the X-RateLimit-Reset header in
\* seconds relative to the current time, read only when has_reset.
ResetDeltas == {-2, 0, 3}
Response(kind, status, remaining, text, has_reset, reset) ==
    [kind |-> kind, status |-> status, remaining |-> remaining, text |-> text,
     has_reset |-> has_reset, reset |-> reset]
Ok == Response("http", 200, "absent", "", FALSE, 0)
\* 409: what the API answers for the commits of an empty repository.
Conflict == Response("http", 409, "absent", "Git Repository is empty.", FALSE, 0)
Forbidden ==
    { Response("http", 403, rem, txt, TRUE, d) :
        rem \in {"absent", "0", "57"},
        txt \in {"API rate limit exceeded", "Forbidden"},
        d \in ResetDeltas }
    \cup { Response("http", 403, "0", "API rate limit exceeded", FALSE, 0) }
ServerError == Response("http", 500, "absent", "Server Error", FALSE, 0)
Unauthorized == Response("http", 401, "absent", "Bad credentials", FALSE, 0)
NotFound == Response("http", 404, "absent", "Not Found", FALSE, 0)
ConnectionError == Response("ConnectionError", 0, "absent", "", FALSE, 0)
Timeout == Response("RequestException", 0, "absent", "", FALSE, 0)
Faults == Forbidden \cup {ServerError, NotFound, ConnectionError, Timeout}
\* Whether response.json() decodes the body: the API's own error bodies are
\* JSON objects with a "message", a gateway's error page is not.
JsonBody(resp) == resp.text # "Server Error"

\* What the server answers when it does not fail: 401 to a request without
\* a token (the Authorization header then reads "Bearer None").
Answers(a) ==
    IF ~env.token THEN {Unauthorized}
    ELSE IF a.url = "commit" /\ srv.commits = 0 THEN {Conflict}
    ELSE IF a.url = "commits" /\ srv.commits = 0 THEN {Ok, Conflict}
    ELSE {Ok}

\* Every response the request of activation a may get.
Responses(a) == Answers(a) \cup (IF faultsLeft > 0 THEN Faults ELSE {})

\* "rate limit" in response.text.lower()
HasRateLimitText(text) == text \in {"API rate limit exceeded", "rate limit"}

(***************************************************************************)
(* Activations of the API client.                                          *)
(***************************************************************************)
Idle == [pc |-> "idle", url |-> "", state |-> "", per_page |-> 0, page |-> 0,
         number |-> 0, retries |-> 0, requests |-> 0, trace |-> <<>>, slept |-> 0,
         last |-> Ok, ret |-> None]
\* github_api_get(url, params): the state on entry.
Call(url, state, per_page, page) ==
    [Idle EXCEPT !.pc = "request", !.url = url, !.state = state,
                 !.per_page = per_page, !.page = page]

\* github_api_get(".../pulls/{number}")
CallPull(n) == [Idle EXCEPT !.pc = "request", !.url = "pull", !.number = n]

\* An entry of the error log: what happened, with the status and body of the
\* response or the number (of the retry, of the repository) the message gives.
Entry(kind, url, status, text, n) ==
    [kind |-> kind, status |-> status, text |-> text, n |-> n]

\* One more request issued and answered by resp; its outcome, as the script
\* sees it, is recorded.
Issued(a, resp, outcome) ==
    [a EXCEPT !.requests = @ + 1, !.trace = Append(@, outcome), !.last = resp,
              !.slept = 0]
\* time.sleep(t)
Sleep(a, t) == [a EXCEPT !.slept = t]
Return(a, v) == [a EXCEPT !.pc = "returned", !.ret = v]
Raise(a) == [a EXCEPT !.pc = "raised"]

\* The reset time relative to now that the detail scripts compute:
\* int(headers.get("X-RateLimit-Reset", time.time() + 60)) - int(time.time())
DefaultResetDelay == 60
ResetDelta(resp) == IF resp.has_reset THEN resp.reset ELSE DefaultResetDelay

\* 2 ** n
RECURSIVE Pow2(_)
Pow2(n) == IF n = 0 THEN 1 ELSE 2 * Pow2(n - 1)

(***************************************************************************)
(* fetch_repo_details.py: one iteration of github_api_get's loop.          *)
(***************************************************************************)
details_is_rate_limit(resp) ==
    resp.kind = "http" /\ resp.status = 403 /\ HasRateLimitText(resp.text)

details_github_api_get ==
    /\ script = "details"
    /\ api.pc = "request"
    /\ \E resp \in Responses(api) :
         /\ faultsLeft' = IF resp \in Answers(api) THEN faultsLeft ELSE faultsLeft - 1
         /\ anyRequest' = TRUE
         /\ IF resp.kind = "ConnectionError"
            THEN LET a == [Issued(api, resp, "connection") EXCEPT !.retries = @ + 1]
                     e == Entry("Connection error", api.url, 0, "", a.retries)
                     b == Sleep(a, 5 * a.retries)
                 IN IF b.retries < MaxRetriesDetails
                    THEN /\ api' = b
                         /\ log' = Append(log, e)
                    ELSE /\ api' = Return(b, None)
                         /\ log' = log \o <<e, Entry("Max retries exceeded", api.url, 0, "", 0)>>
            ELSE IF resp.kind = "RequestException"
            THEN /\ api' = Return(Issued(api, resp, "unexpected"), None)
                 /\ log' = Append(log, Entry("Unexpected error", api.url, 0, "", 0))
            ELSE IF details_is_rate_limit(resp)
            THEN /\ api' = Sleep(Issued(api, resp, "rate_limit"), Max(ResetDelta(resp), 1))
                 /\ log' = log
            ELSE IF resp.status \notin {200, 201}
            THEN /\ api' = Return(Issued(api, resp, "failed"), None)
                 /\ log' = Append(log, Entry("Failed GET", api.url, resp.status, resp.text, 0))
            ELSE /\ api' = Return(Issued(api, resp, "ok"), Body(api))
                 /\ log' = log
    /\ UNCHANGED <<script, entry, env, srv, pc, loc, repos, idx, row, report, exit>>

(***************************************************************************)
(* fetch_repo_details_inventory.py: one iteration of github_api_get's      *)
(* "for attempt in range(retries)" loop; api.retries is attempt.           *)
(***************************************************************************)
inventory_is_rate_limit(resp) ==
    resp.kind = "http" /\ resp.status = 403 /\ resp.remaining = "0"

\* The end of an iteration that did not return: the next attempt, or the
\* end of the loop and "return []".
inventory_next_attempt(a) ==
    LET b == [a EXCEPT !.retries = @ + 1]
    IN IF b.retries < MaxRetriesInventory THEN b ELSE Return(b, List(<<>>))

inventory_github_api_get ==
    /\ script = "inventory"
    /\ api.pc = "request"
    /\ \E resp \in Responses(api) :
         /\ faultsLeft' = IF resp \in Answers(api) THEN faultsLeft ELSE faultsLeft - 1
         /\ anyRequest' = TRUE
         /\ IF resp.kind = "ConnectionError"
            THEN api' = inventory_next_attempt(
                            Sleep(Issued(api, resp, "connection"), Pow2(api.retries)))
            ELSE IF resp.kind = "RequestException"
            THEN api' = Return(Issued(api, resp, "unexpected"), List(<<>>))
            ELSE IF inventory_is_rate_limit(resp)
            THEN \* time.sleep raises ValueError for a negative argument
                 IF ResetDelta(resp) < 0
                 THEN api' = Raise(Issued(api, resp, "rate_limit"))
                 ELSE api' = inventory_next_attempt(
                                 Sleep(Issued(api, resp, "rate_limit"), ResetDelta(resp)))
            ELSE IF resp.status >= 400
            THEN \* raise_for_status: HTTPError, a RequestException
                 api' = Return(Issued(api, resp, "failed"), List(<<>>))
            ELSE api' = Return(Issued(api, resp, "ok"), Body(api))
    /\ UNCHANGED <<script, entry, env, srv, pc, loc, repos, idx, row, report, log, exit>>

(***************************************************************************)
(* The calling code.  A step of a function runs from the return of its     *)
(* pending API call to its next API call (or to its own return).           *)
(***************************************************************************)
NoReport == [created |-> FALSE, headers |-> 0, rows |-> <<>>]
NoRow == [name |-> 0, open_prs |-> 0, closed_prs |-> 0, merged_prs |-> 0,
          open_issues |-> 0, closed_issues |-> 0, branch_count |-> 0,
          tag_count |-> 0, date |-> "", user |-> "", releases |-> 0]
NoLocals == [page |-> 1, acc |-> <<>>, count |-> 0, open |-> 0, closed |-> 0,
             merged |-> 0, prs |-> <<>>, i |-> 0]

Returned(where) == pc = where /\ api.pc = "returned"

\* A step that touches only the program counter, the client and the locals.
Step(newpc, newapi, newloc, newrow) ==
    /\ pc' = newpc
    /\ api' = newapi
    /\ loc' = newloc
    /\ row' = newrow
    /\ UNCHANGED <<script, entry, env, srv, faultsLeft, repos, idx, report, log,
                   anyRequest, exit>>

\* The return of function f: to the function main calls next, or, when f is
\* itself the function under execution, to the end.
Ret(f, newpc, newapi, newrow) ==
    IF entry = f THEN Step("done", Idle, loc, newrow)
    ELSE Step(newpc, newapi, NoLocals, newrow)

\* len(x) if x else 0
LenOrZero(v) == IF Truthy(v) THEN PyLen(v) ELSE 0

\* sum(1 for i in s if i is not in marked)
CountUnmarked(s, marked) == Cardinality({i \in 1..Len(s) : s[i] \notin marked})

Marked(state) == IF state = "open" THEN srv.marked_open ELSE srv.marked_closed

\* The body of "for repo in repos": the next repository, or the end of main.
\* i is the position of the repository just handled.
NextRepo(i) ==
    /\ idx' = i + 1
    /\ loc' = NoLocals
    /\ IF i + 1 <= Len(repos)
       THEN /\ pc' = "get_pr_counts_open"
            /\ row' = [NoRow EXCEPT !.name = repos[i + 1]]
            /\ api' = Call("pulls", "open", IF script = "details" THEN 1 ELSE 0, 0)
            /\ exit' = exit
       ELSE /\ pc' = "done"
            /\ row' = NoRow
            /\ api' = Idle
            /\ exit' = "0"

(***************************************************************************)
(* get_repos, the same in both detail scripts.                             *)
(***************************************************************************)
\* get_repos as it would be with "return []" for "break" when a request
\* yields no data: the pages accumulated so far are dropped.
get_repos_drops_pages ==
    /\ script \in {"details", "inventory"}
    /\ Returned("get_repos")
    /\ LET data == api.ret
           acc == IF Truthy(data) THEN loc.acc \o data.items ELSE <<>>
       IN IF ~Truthy(data) \/ PyLen(data) < PerPage
          THEN /\ repos' = acc
               /\ pc' = IF entry = "get_repos" THEN "done" ELSE "main_repos"
               /\ api' = Idle
               /\ loc' = [loc EXCEPT !.acc = acc]
          ELSE /\ repos' = repos
               /\ pc' = pc
               /\ api' = Call("repos", "", PerPage, loc.page + 1)
               /\ loc' = [loc EXCEPT !.acc = acc, !.page = @ + 1]
    /\ UNCHANGED <<script, entry, env, srv, faultsLeft, idx, row, report, log,
                   anyRequest, exit>>

\* get_repos as it would be without "page += 1": after a full page the page
\* just received is requested again.
get_repos_same_page ==
    /\ script \in {"details", "inventory"}
    /\ Returned("get_repos")
    /\ LET data == api.ret
           acc == IF Truthy(data) THEN loc.acc \o data.items ELSE loc.acc
       IN IF ~Truthy(data) \/ PyLen(data) < PerPage
          THEN /\ repos' = acc
               /\ pc' = IF entry = "get_repos" THEN "done" ELSE "main_repos"
               /\ api' = Idle
               /\ loc' = [loc EXCEPT !.acc = acc]
          ELSE /\ repos' = repos
               /\ pc' = pc
               /\ api' = Call("repos", "", PerPage, loc.page)
               /\ loc' = [loc EXCEPT !.acc = acc]
    /\ UNCHANGED <<script, entry, env, srv, faultsLeft, idx, row, report, log,
                   anyRequest, exit>>

get_repos ==
    /\ script \in {"details", "inventory"}
    /\ Returned("get_repos")
    /\ LET data == api.ret
           acc == IF Truthy(data) THEN loc.acc \o data.items ELSE loc.acc
       IN IF ~Truthy(data) \/ PyLen(data) < PerPage
          THEN /\ repos' = acc
               /\ pc' = IF entry = "get_repos" THEN "done" ELSE "main_repos"
               /\ api' = Idle
               /\ loc' = [loc EXCEPT !.acc = acc]
          ELSE /\ repos' = repos
               /\ pc' = pc
               /\ api' = Call("repos", "", PerPage, loc.page + 1)
               /\ loc' = [loc EXCEPT !.acc = acc, !.page = @ + 1]
    /\ UNCHANGED <<script, entry, env, srv, faultsLeft, idx, row, report, log,
                   anyRequest, exit>>

(***************************************************************************)
(* fetch_repo_details.py                                                   *)
(***************************************************************************)
\* main up to the call of get_repos
details_main ==
    /\ script = "details"
    /\ pc = "start"
    /\ IF ~env.org
       THEN /\ pc' = "done"
            /\ exit' = "0"
            /\ UNCHANGED <<api, loc>>
       ELSE /\ pc' = "get_repos"
            /\ api' = Call("repos", "", PerPage, 1)
            /\ loc' = NoLocals
            /\ exit' = exit
    /\ UNCHANGED <<script, entry, env, srv, faultsLeft, repos, idx, row, report, log,
                   anyRequest>>

\* main from the return of get_repos to the first repository
main_repos ==
    /\ script \in {"details", "inventory"}
    /\ pc = "main_repos"
    /\ IF repos = <<>>
       THEN /\ pc' = "done"
            /\ exit' = "0"
            /\ UNCHANGED <<api, loc, row, idx, report>>
       ELSE /\ report' = [created |-> TRUE, headers |-> 1, rows |-> <<>>]
            /\ NextRepo(0)
    /\ UNCHANGED <<script, entry, env, srv, faultsLeft, repos, log, anyRequest>>

details_get_pr_counts ==
    /\ script = "details"
    /\ \/ /\ Returned("get_pr_counts_open")
          /\ Step("get_pr_counts_closed", Call("pulls", "closed", 1, 0),
                  [loc EXCEPT !.open = LenOrZero(api.ret)], row)
       \/ /\ Returned("get_pr_counts_closed")
          /\ IF Truthy(api.ret)
             THEN Step("get_pr_counts_page", Call("pulls", "closed", PerPage, 1),
                       [loc EXCEPT !.closed = LenOrZero(api.ret), !.page = 1], row)
             ELSE Ret("get_pr_counts", "get_issue_counts_open", Call("issues", "open", 1, 0),
                      [row EXCEPT !.open_prs = loc.open, !.closed_prs = 0,
                                  !.merged_prs = 0])
       \/ /\ Returned("get_pr_counts_page")
          /\ IF ~Truthy(api.ret)
             THEN Ret("get_pr_counts", "get_issue_counts_open", Call("issues", "open", 1, 0),
                      [row EXCEPT !.open_prs = loc.open, !.closed_prs = loc.closed,
                                  !.merged_prs = loc.merged])
             ELSE Step("get_pr_counts_pr", CallPull(api.ret.items[1]),
                       [loc EXCEPT !.prs = api.ret.items, !.i = 1], row)
       \/ /\ Returned("get_pr_counts_pr")
          /\ LET merged == IF Truthy(api.ret) /\ api.ret.items[1] \in srv.merged
                           THEN loc.merged + 1 ELSE loc.merged
             IN IF loc.i < Len(loc.prs)
                THEN Step(pc, CallPull(loc.prs[loc.i + 1]),
                          [loc EXCEPT !.merged = merged, !.i = @ + 1], row)
                ELSE IF Len(loc.prs) < PerPage
                THEN Ret("get_pr_counts", "get_issue_counts_open",
                         Call("issues", "open", 1, 0),
                         [row EXCEPT !.open_prs = loc.open, !.closed_prs = loc.closed,
                                     !.merged_prs = merged])
                ELSE Step("get_pr_counts_page",
                          Call("pulls", "closed", PerPage, loc.page + 1),
                          [loc EXCEPT !.merged = merged, !.page = @ + 1, !.prs = <<>>,
                                      !.i = 0], row)

details_get_issue_counts ==
    /\ script = "details"
    /\ \/ /\ Returned("get_issue_counts_open")
          /\ Step("get_issue_counts_closed", Call("issues", "closed", 1, 0), loc, row)
       \/ /\ Returned("get_issue_counts_closed")
          /\ Step("count_issues_open", Call("issues", "open", PerPage, 1),
                  [loc EXCEPT !.page = 1, !.count = 0], row)
       \/ /\ Returned("count_issues_open")
          /\ LET issues == api.ret
                 count == loc.count + CountUnmarked(issues.items, Marked("open"))
             IN IF ~Truthy(issues)
                THEN Step("count_issues_closed", Call("issues", "closed", PerPage, 1),
                          [loc EXCEPT !.page = 1, !.count = 0, !.open = loc.count], row)
                ELSE IF PyLen(issues) < PerPage
                THEN Step("count_issues_closed", Call("issues", "closed", PerPage, 1),
                          [loc EXCEPT !.page = 1, !.count = 0, !.open = count], row)
                ELSE Step(pc, Call("issues", "open", PerPage, loc.page + 1),
                          [loc EXCEPT !.page = @ + 1, !.count = count], row)
       \/ /\ Returned("count_issues_closed")
          /\ LET issues == api.ret
                 count == loc.count + CountUnmarked(issues.items, Marked("closed"))
             IN IF ~Truthy(issues)
                THEN Ret("get_issue_counts", "get_branches",
                         Call("branches", "", PerPage, 1),
                         [row EXCEPT !.open_issues = loc.open,
                                     !.closed_issues = loc.count])
                ELSE IF PyLen(issues) < PerPage
                THEN Ret("get_issue_counts", "get_branches",
                         Call("branches", "", PerPage, 1),
                         [row EXCEPT !.open_issues = loc.open, !.closed_issues = count])
                ELSE Step(pc, Call("issues", "closed", PerPage, loc.page + 1),
                          [loc EXCEPT !.page = @ + 1, !.count = count], row)

details_get_branches ==
    /\ script = "details"
    /\ Returned("get_branches")
    /\ LET data == api.ret
           branches == IF Truthy(data) THEN loc.acc \o data.items ELSE loc.acc
       IN IF ~Truthy(data) \/ PyLen(data) < PerPage
          THEN Ret("get_branches", "get_tags", Call("tags", "", PerPage, 1),
                   [row EXCEPT !.branch_count = Len(branches)])
          ELSE Step(pc, Call("branches", "", PerPage, loc.page + 1),
                    [loc EXCEPT !.acc = branches, !.page = @ + 1], row)

details_get_tags ==
    /\ script = "details"
    /\ Returned("get_tags")
    /\ LET data == api.ret
           tags == IF Truthy(data) THEN loc.acc \o data.items ELSE loc.acc
       IN IF ~Truthy(data) \/ PyLen(data) < PerPage
          THEN Ret("get_tags", "main_last_commit", Idle,
                   [row EXCEPT !.tag_count = Len(tags)])
          ELSE Step(pc, Call("tags", "", PerPage, loc.page + 1),
                    [loc EXCEPT !.acc = tags, !.page = @ + 1], row)

\* main, line 177: the call of get_last_commit evaluates repo["default_branch"],
\* a KeyError when the repository record has no such key.
main_last_commit ==
    /\ script \in {"details", "inventory"}
    /\ pc = "main_last_commit"
    /\ IF row.name \in srv.malformed
       THEN Step("except", Idle, loc, row)
       ELSE Step("get_last_commit",
                 IF script = "details" THEN Call("commits", "", 1, 0)
                 ELSE Call("commit", "", 0, 0),
                 loc, row)

\* get_last_commit as it would be without "if data and len(data) > 0":
\* data[0] of no data is an exception.
details_get_last_commit_unchecked ==
    /\ script = "details"
    /\ Returned("get_last_commit")
    /\ IF Truthy(api.ret)
       THEN Ret("get_last_commit", "main_releases", Call("releases", "", 1, 0),
                [row EXCEPT !.date = "date", !.user = "name"])
       ELSE Step("except", Idle, loc, row)

\* get_last_commit followed by a releases request without "per_page": 1:
\* the server answers with a page of its default size.
details_get_last_commit_full_page ==
    /\ script = "details"
    /\ Returned("get_last_commit")
    /\ LET data == api.ret
       IN IF Truthy(data) /\ PyLen(data) > 0
          THEN Ret("get_last_commit", "main_releases", Call("releases", "", 0, 0),
                   [row EXCEPT !.date = "date", !.user = "name"])
          ELSE Ret("get_last_commit", "main_releases", Call("releases", "", 0, 0),
                   [row EXCEPT !.date = "", !.user = ""])

details_get_last_commit ==
    /\ script = "details"
    /\ Returned("get_last_commit")
    /\ LET data == api.ret
       IN IF Truthy(data) /\ PyLen(data) > 0
          THEN Ret("get_last_commit", "main_releases", Call("releases", "", 1, 0),
                   [row EXCEPT !.date = "date", !.user = "name"])
          ELSE Ret("get_last_commit", "main_releases", Call("releases", "", 1, 0),
                   [row EXCEPT !.date = "", !.user = ""])

\* details_main_row as it would be with writer.writeheader() inside the loop
\* over repos: every row is preceded by the header.
details_main_row_with_header ==
    /\ script = "details"
    /\ Returned("main_releases")
    /\ LET releases == api.ret
           r == [row EXCEPT !.releases = LenOrZero(releases)]
       IN /\ report' = [report EXCEPT !.headers = @ + 1, !.rows = Append(@, r)]
          /\ NextRepo(idx)
    /\ UNCHANGED <<script, entry, env, srv, faultsLeft, repos, log, anyRequest>>

\* main, lines 178-201: the row, the releases probe, writer.writerow(row)
details_main_row ==
    /\ script = "details"
    /\ Returned("main_releases")
    /\ LET releases == api.ret
           r == [row EXCEPT !.releases = LenOrZero(releases)]
       IN /\ report' = [report EXCEPT !.rows = Append(@, r)]
          /\ NextRepo(idx)
    /\ UNCHANGED <<script, entry, env, srv, faultsLeft, repos, log, anyRequest>>

\* main_except as it would be if the handler ended the run: the error is
\* logged and the loop over repos is left.
main_except_aborts ==
    /\ script \in {"details", "inventory"}
    /\ entry = "main"
    /\ idx >= 1
    /\ pc # "done"
    /\ pc = "except" \/ api.pc = "raised"
    /\ log' = Append(log, Entry("Error processing", "", 0, "", row.name))
    /\ pc' = "done"
    /\ exit' = "crash"
    /\ UNCHANGED <<script, entry, env, srv, faultsLeft, api, loc, repos, idx, row,
                   report, anyRequest>>

\* main: "except Exception as e" of the loop over repos.  An exception raised
\* by the API client while a repository is processed arrives here too.
main_except ==
    /\ script \in {"details", "inventory"}
    /\ entry = "main"
    /\ idx >= 1
    /\ pc # "done"
    /\ pc = "except" \/ api.pc = "raised"
    /\ log' = Append(log, Entry("Error processing", "", 0, "", row.name))
    /\ NextRepo(idx)
    /\ UNCHANGED <<script, entry, env, srv, faultsLeft, repos, report, anyRequest>>

\* An exception nothing catches: raised by the API client under get_repos,
\* or in a function called on its own.
uncaught ==
    /\ api.pc = "raised" \/ pc = "except"
    /\ pc # "done"
    /\ entry # "main" \/ (script # "list" /\ idx = 0)
    /\ pc' = "done"
    /\ exit' = "crash"
    /\ UNCHANGED <<script, entry, env, srv, faultsLeft, api, loc, repos, idx, row,
                   report, log, anyRequest>>

(***************************************************************************)
(* fetch_repo_details_inventory.py                                         *)
(***************************************************************************)
\* module level, lines 13-18, and main up to the call of get_repos
inventory_startup ==
    /\ script = "inventory"
    /\ pc = "start"
    /\ IF ~env.token \/ ~env.org
       THEN /\ pc' = "done"
            /\ exit' = "1"
            /\ UNCHANGED <<api, loc>>
       ELSE /\ pc' = "get_repos"
            /\ api' = Call("repos", "", PerPage, 1)
            /\ loc' = NoLocals
            /\ exit' = exit
    /\ UNCHANGED <<script, entry, env, srv, faultsLeft, repos, idx, row, report, log,
                   anyRequest>>

\* sum(1 for pr in s if pr.get("merged_at"))
RECURSIVE CountMerged(_)
CountMerged(s) ==
    IF s = <<>> THEN 0
    ELSE (IF Head(s) \in srv.merged THEN 1 ELSE 0) + CountMerged(Tail(s))

inventory_get_pr_counts ==
    /\ script = "inventory"
    /\ \/ /\ Returned("get_pr_counts_open")
          /\ Step("get_pr_counts_closed", Call("pulls", "closed", 0, 0),
                  [loc EXCEPT !.open = PyLen(api.ret)], row)
       \/ /\ Returned("get_pr_counts_closed")
          /\ Ret("get_pr_counts", "get_issue_counts_open", Call("issues", "open", 0, 0),
                 [row EXCEPT !.open_prs = loc.open, !.closed_prs = PyLen(api.ret),
                             !.merged_prs = CountMerged(api.ret.items)])

inventory_get_issue_counts ==
    /\ script = "inventory"
    /\ \/ /\ Returned("get_issue_counts_open")
          /\ Step("get_issue_counts_closed", Call("issues", "closed", 0, 0),
                  [loc EXCEPT !.open = CountUnmarked(api.ret.items, Marked("open"))],
                  row)
       \/ /\ Returned("get_issue_counts_closed")
          /\ Ret("get_issue_counts", "get_branches", Call("branches", "", 0, 0),
                 [row EXCEPT !.open_issues = loc.open,
                             !.closed_issues =
                                 CountUnmarked(api.ret.items, Marked("closed"))])

inventory_get_branches ==
    /\ script = "inventory"
    /\ Returned("get_branches")
    /\ Ret("get_branches", "get_tags", Call("tags", "", 0, 0),
           [row EXCEPT !.branch_count = PyLen(api.ret)])

inventory_get_tags ==
    /\ script = "inventory"
    /\ Returned("get_tags")
    /\ Ret("get_tags", "main_last_commit", Idle, [row EXCEPT !.tag_count = PyLen(api.ret)])

inventory_get_last_commit ==
    /\ script = "inventory"
    /\ Returned("get_last_commit")
    /\ IF Truthy(api.ret)
       THEN Ret("get_last_commit", "main_releases", Call("releases", "", 1, 0),
                [row EXCEPT !.date = "date", !.user = "name"])
       ELSE Ret("get_last_commit", "main_releases", Call("releases", "", 1, 0),
                [row EXCEPT !.date = "", !.user = ""])

\* main, lines 129-152: the releases probe, the row, writer.writerow(row)
inventory_main_row ==
    /\ script = "inventory"
    /\ Returned("main_releases")
    /\ LET releases == api.ret
           r == [row EXCEPT !.releases = LenOrZero(releases)]
       IN /\ report' = [report EXCEPT !.rows = Append(@, r)]
          /\ NextRepo(idx)
    /\ UNCHANGED <<script, entry, env, srv, faultsLeft, repos, log, anyRequest>>

(***************************************************************************)
(* fetch_repo_list.py                                                      *)
(***************************************************************************)
\* module level, lines 21-33, and the call of get_github_repos
list_startup ==
    /\ script = "list"
    /\ pc = "start"
    /\ IF ~env.org \/ ~env.token
       THEN /\ pc' = "done"
            /\ exit' = "1"
            /\ log' = Append(log, Entry("Missing GH_ORG or GH_PAT", "", 0, "", 0))
            /\ UNCHANGED <<api, loc>>
       ELSE /\ pc' = "get_github_repos"
            /\ api' = Call("repos", "", PerPage, 1)
            /\ loc' = NoLocals
            /\ UNCHANGED <<exit, log>>
    /\ UNCHANGED <<script, entry, env, srv, faultsLeft, repos, idx, row, report,
                   anyRequest>>

list_is_rate_limit(resp) ==
    resp.kind = "http" /\ resp.status = 403 /\ resp.remaining # "absent"

\* int(headers.get("X-RateLimit-Reset", 0)) - int(time.time()), the current
\* time being Now seconds after the epoch
Now == 1000
list_reset_delta(resp) == IF resp.has_reset THEN resp.reset ELSE 0 - Now

\* One iteration of the "while True" loop of get_github_repos; api.page is
\* params["page"], loc.acc is repos.
list_get_github_repos ==
    /\ script = "list"
    /\ pc = "get_github_repos"
    /\ api.pc = "request"
    /\ \E resp \in Responses(api) :
         /\ faultsLeft' = IF resp \in Answers(api) THEN faultsLeft ELSE faultsLeft - 1
         /\ anyRequest' = TRUE
         /\ IF resp.kind # "http"
            THEN \* requests.get raises: nothing in the function catches it
                 /\ api' = Raise(Issued(api, resp, "connection"))
                 /\ UNCHANGED <<pc, loc, repos, log>>
            ELSE IF list_is_rate_limit(resp)
            THEN /\ api' = Sleep(Issued(api, resp, "rate_limit"),
                                 Max(list_reset_delta(resp), 1))
                 /\ log' = Append(log, Entry("Rate limit exceeded", api.url, 0, "",
                                             Max(list_reset_delta(resp), 1)))
                 /\ UNCHANGED <<pc, loc, repos>>
            ELSE IF resp.status # 200
            THEN IF JsonBody(resp)
                 THEN /\ api' = Return(Issued(api, resp, "failed"), List(loc.acc))
                      /\ log' = Append(log, Entry("Error", api.url, resp.status,
                                                  resp.text, 0))
                      /\ repos' = loc.acc
                      /\ pc' = IF entry = "get_github_repos" THEN "done"
                               ELSE "save_to_csv"
                      /\ loc' = loc
                 ELSE \* response.json() raises while the message is built
                      /\ api' = Raise(Issued(api, resp, "failed"))
                      /\ UNCHANGED <<pc, loc, repos, log>>
            ELSE LET data == Body(api)
                 IN IF ~Truthy(data)
                    THEN /\ api' = Return(Issued(api, resp, "ok"), List(loc.acc))
                         /\ repos' = loc.acc
                         /\ pc' = IF entry = "get_github_repos" THEN "done"
                                  ELSE "save_to_csv"
                         /\ UNCHANGED <<loc, log>>
                    ELSE /\ api' = [Issued(api, resp, "ok") EXCEPT !.page = @ + 1]
                         /\ loc' = [loc EXCEPT !.acc = @ \o data.items, !.page = @ + 1]
                         /\ UNCHANGED <<pc, repos, log>>
    /\ UNCHANGED <<script, entry, env, srv, idx, row, report, exit>>

\* __main__, lines 77-79: save_to_csv(repositories) and the end of the script
save_to_csv ==
    /\ script = "list"
    /\ pc = "save_to_csv"
    /\ report' = [created |-> TRUE, headers |-> 1,
                  rows |-> [i \in 1..Len(repos) |-> [NoRow EXCEPT !.name = repos[i]]]]
    /\ log' = Append(log, Entry("CSV file saved", "", 0, "", 0))
    /\ pc' = "done"
    /\ exit' = "0"
    /\ api' = Idle
    /\ UNCHANGED <<script, entry, env, srv, faultsLeft, loc, repos, idx, row,
                   anyRequest>>

\* __main__, lines 80-82: "except Exception as e"
list_main_except ==
    /\ script = "list"
    /\ entry = "main"
    /\ pc # "done"
    /\ api.pc = "raised"
    /\ log' = Append(log, Entry("Unhandled exception", "", 0, "", 0))
    /\ pc' = "done"
    /\ exit' = "0"
    /\ UNCHANGED <<script, entry, env, srv, faultsLeft, api, loc, repos, idx, row,
                   report, anyRequest>>

(***************************************************************************)
(* Initial states.                                                         *)
(***************************************************************************)
EmptyServer ==
    [repos |-> 0, pulls_open |-> 0, pulls_closed |-> 0, issues_open |-> 0,
     issues_closed |-> 0, branches |-> 0, tags |-> 0, commits |-> 0,
     releases |-> 0, merged |-> {}, marked_open |-> {}, marked_closed |-> {},
     malformed |-> {}]
OneOfEach ==
    [repos |-> 1, pulls_open |-> 1, pulls_closed |-> 1, issues_open |-> 1,
     issues_closed |-> 1, branches |-> 1, tags |-> 1, commits |-> 1,
     releases |-> 1, merged |-> {}, marked_open |-> {}, marked_closed |-> {1},
     malformed |-> {}]
TwoOfEach ==
    [repos |-> 2, pulls_open |-> 2, pulls_closed |-> 2, issues_open |-> 2,
     issues_closed |-> 2, branches |-> 2, tags |-> 2, commits |-> 2,
     releases |-> 2, merged |-> {1, 2}, marked_open |-> {2}, marked_closed |-> {},
     malformed |-> {}]

\* The first call of function f, as main makes it.
FirstCall(s, f) ==
    CASE f = "github_api_get" -> Call("repos", "", PerPage, 1)
      [] f \in {"get_repos", "get_github_repos"} -> Call("repos", "", PerPage, 1)
      [] f = "get_pr_counts" -> Call("pulls", "open", IF s = "details" THEN 1 ELSE 0, 0)
      [] f = "get_issue_counts" -> Call("issues", "open", IF s = "details" THEN 1 ELSE 0, 0)
      [] f = "get_branches" -> IF s = "details" THEN Call("branches", "", PerPage, 1)
                               ELSE Call("branches", "", 0, 0)
      [] f = "get_tags" -> IF s = "details" THEN Call("tags", "", PerPage, 1)
                           ELSE Call("tags", "", 0, 0)
      [] OTHER -> Idle

FirstPc(f) ==
    CASE f = "main" -> "start"
      [] f = "github_api_get" -> "caller"
      [] f = "get_pr_counts" -> "get_pr_counts_open"
      [] f = "get_issue_counts" -> "get_issue_counts_open"
      [] OTHER -> f

\* Function f of script s is entered, the remote API holding server.
InitWith(s, f, server, faults) ==
    /\ script = s
    /\ entry = f
    /\ srv = server
    /\ faultsLeft = faults
    /\ pc = FirstPc(f)
    /\ api = FirstCall(s, f)
    /\ loc = NoLocals
    /\ repos = <<>>
    /\ idx = 0
    /\ row = NoRow
    /\ report = NoReport
    /\ log = <<>>
    /\ anyRequest = FALSE
    /\ exit = "running"

(***************************************************************************)
(* The client on its own: github_api_get called once, for the requests     *)
(* the detail scripts make.                                                *)
(***************************************************************************)
InitClient ==
    /\ env = [org |-> TRUE, token |-> TRUE]
    /\ \E s \in {"details", "inventory"}, server \in {OneOfEach, EmptyServer} :
         /\ InitWith(s, "github_api_get", server, MaxClientFaults)
    /\ api \in {Call("repos", "", PerPage, 1), Call("releases", "", 1, 0),
                IF script = "details" THEN Call("commits", "", 1, 0)
                ELSE Call("commit", "", 0, 0)}

NextClient == details_github_api_get \/ inventory_github_api_get

SpecClient == InitClient /\ [][NextClient]_vars

(***************************************************************************)
(* The paginators of the organization listing on their own.                *)
(***************************************************************************)
Totals == 0..(MaxPages * PerPage + 1)

InitPaginate ==
    /\ env = [org |-> TRUE, token |-> TRUE]
    /\ \E s \in Scripts, n \in Totals :
         InitWith(s, IF s = "list" THEN "get_github_repos" ELSE "get_repos",
                  [EmptyServer EXCEPT !.repos = n], MaxPageFaults)

NextPaginate ==
    \/ details_github_api_get
    \/ inventory_github_api_get
    \/ get_repos
    \/ list_get_github_repos
    \/ uncaught

SpecPaginate == InitPaginate /\ [][NextPaginate]_vars

(***************************************************************************)
(* The counting functions on their own.                                    *)
(***************************************************************************)
MarkPositions == {1, ServerDefaultPerPage + 1, PerPage, PerPage + 1}
BoundaryTotals ==
    {0, 1, ServerDefaultPerPage, ServerDefaultPerPage + 1, PerPage - 1, PerPage,
     PerPage + 1, MaxPages * PerPage, MaxPages * PerPage + 1}

InitCounts ==
    /\ env = [org |-> TRUE, token |-> TRUE]
    /\ \E s \in {"details", "inventory"},
          f \in {"get_branches", "get_tags", "get_issue_counts"} :
       \E n \in (IF f = "get_issue_counts" THEN BoundaryTotals ELSE Totals),
          m \in {0, 1, PerPage + 1}, S \in SUBSET MarkPositions :
         /\ f # "get_issue_counts" => m = 0 /\ S = {}
         /\ InitWith(s, f,
                  [EmptyServer EXCEPT !.branches = n, !.tags = n,
                       !.issues_open = IF f = "get_issue_counts" THEN n ELSE 0,
                       !.issues_closed = IF f = "get_issue_counts" THEN m ELSE 0,
                       !.marked_open = IF f = "get_issue_counts" THEN S \cap (1..n) ELSE {},
                       !.marked_closed = IF f = "get_issue_counts" THEN S \cap (1..m) ELSE {}],
                  MaxPageFaults)

NextCounts ==
    \/ details_github_api_get
    \/ inventory_github_api_get
    \/ details_get_issue_counts
    \/ details_get_branches
    \/ details_get_tags
    \/ inventory_get_issue_counts
    \/ inventory_get_branches
    \/ inventory_get_tags
    \/ uncaught

SpecCounts == InitCounts /\ [][NextCounts]_vars

(***************************************************************************)
(* The scripts as they run.                                                *)
(***************************************************************************)
Init ==
    /\ env \in [org : BOOLEAN, token : BOOLEAN]
    /\ \E s \in Scripts, server \in {EmptyServer, OneOfEach, TwoOfEach},
          n \in 0..MaxRepos :
         \E bad \in SUBSET (1..n) :
            InitWith(s, "main", [server EXCEPT !.repos = n, !.malformed = bad],
                     MaxMainFaults)

Next ==
    \/ details_github_api_get
    \/ inventory_github_api_get
    \/ get_repos
    \/ details_main
    \/ main_repos
    \/ details_get_pr_counts
    \/ details_get_issue_counts
    \/ details_get_branches
    \/ details_get_tags
    \/ main_last_commit
    \/ details_get_last_commit
    \/ details_main_row
    \/ main_except
    \/ uncaught
    \/ inventory_startup
    \/ inventory_get_pr_counts
    \/ inventory_get_issue_counts
    \/ inventory_get_branches
    \/ inventory_get_tags
    \/ inventory_get_last_commit
    \/ inventory_main_row
    \/ list_startup
    \/ list_get_github_repos
    \/ save_to_csv
    \/ list_main_except

Spec == Init /\ [][Next]_vars

(***************************************************************************)
(* Vocabulary of the properties.                                           *)
(***************************************************************************)
\* The failure sentinel of github_api_get.
Sentinel == IF script = "details" THEN None ELSE List(<<>>)
\* The retry bound of github_api_get.
RetryBound == IF script = "details" THEN MaxRetriesDetails ELSE MaxRetriesInventory
\* Whether the running script takes resp for a rate-limit response.
IsRateLimit(resp) ==
    CASE script = "details" -> details_is_rate_limit(resp)
      [] script = "inventory" -> inventory_is_rate_limit(resp)
      [] OTHER -> list_is_rate_limit(resp)
Answered == api.trace # <<>>
LastOutcome == api.trace[Len(api.trace)]
\* The listing 1..n in the order the API serves it.
Listing(n) == [i \in 1..n |-> i]
\* No response so far was a failure of the remote API.
NoFaultSoFar(budget) == faultsLeft = budget
EntriesOf(kind) == Len(SelectSeq(log, LAMBDA e : e.kind = kind))

(***************************************************************************)
(* C1.  On an endpoint that serves full pages 1..k-1 and a short (possibly *)
(* empty) page k, each paginator of the organization listing (get_repos in *)
(* both detail scripts, get_github_repos in the list script) returns the   *)
(* concatenation of pages 1..k and the last page it requests is page k.    *)
(* Checked under SpecPaginate.  Violated by get_github_repos, which stops  *)
(* only at an empty page: after a short, non-empty page k it requests      *)
(* page k+1.                                                               *)
(***************************************************************************)
C1_PaginatorStopsAtShortPage ==
    (pc = "done" /\ exit = "running" /\ NoFaultSoFar(MaxPageFaults))
        => /\ repos = Listing(srv.repos)
           /\ loc.page = (srv.repos \div PerPage) + 1

\* C1 restricted to get_repos of the two detail scripts, where it holds.
C1_GetReposStopsAtShortPage ==
    script \in {"details", "inventory"} => C1_PaginatorStopsAtShortPage

\* What get_github_repos returns is the listing all the same: the extra
\* request is answered with an empty page.
C1_ListReturnsListing ==
    (script = "list" /\ pc = "done" /\ exit = "running" /\ NoFaultSoFar(MaxPageFaults))
        => /\ repos = Listing(srv.repos)
           /\ loc.page = ((srv.repos + PerPage - 1) \div PerPage) + 1

(***************************************************************************)
(* C2.  In github_api_get a rate-limit response is followed by a retry of  *)
(* the request, rate-limit waits never count as retries (the retry count   *)
(* is the number of connection failures), and a call whose responses are   *)
(* rate-limit responses followed by a success returns the decoded body.    *)
(* Checked under SpecClient.  Violated by the inventory script, whose      *)
(* "continue" uses up one of the attempts of "for attempt in range(3)".    *)
(***************************************************************************)
C2_RateLimitWaitsAreNotRetries ==
    api.pc # "raised" =>
        /\ (Answered /\ LastOutcome = "rate_limit") => api.pc = "request"
        /\ api.retries = Count(api.trace, "connection")
        /\ (api.pc = "returned" /\ LastOutcome = "ok") => api.ret = Body(api)

\* C2 restricted to fetch_repo_details.py, where it holds.
C2_Details == script = "details" => C2_RateLimitWaitsAreNotRetries

(***************************************************************************)
(* C3.  When every request of a github_api_get call fails with a           *)
(* connection failure, the call issues exactly as many requests as the     *)
(* retry bound (5, respectively 3), appends one error-log entry for each   *)
(* failed attempt and returns the failure sentinel without raising.        *)
(* Checked under SpecClient.  Violated by the inventory script, which      *)
(* prints the connection failures and appends nothing to the error log.    *)
(***************************************************************************)
OnlyConnectionFailures ==
    Answered /\ \A i \in 1..Len(api.trace) : api.trace[i] = "connection"

C3_RetriesExhausted ==
    (OnlyConnectionFailures /\ api.pc # "request")
        => /\ api.pc = "returned"
           /\ api.requests = RetryBound
           /\ api.ret = Sentinel
           /\ EntriesOf("Connection error") = api.requests

C3_Details == script = "details" => C3_RetriesExhausted

\* What holds in both scripts: the number of requests and the sentinel.
C3_RequestsAndSentinel ==
    /\ OnlyConnectionFailures => api.requests <= RetryBound
    /\ (OnlyConnectionFailures /\ api.pc # "request")
           => /\ api.pc = "returned"
              /\ api.requests = RetryBound
              /\ api.ret = Sentinel

(***************************************************************************)
(* C4.  When a request gets a non-success status that is not a rate-limit  *)
(* response, github_api_get issues no further request in that call         *)
(* (the call has returned), the last entry of the error log carries the    *)
(* status and the body of the response, and the failure sentinel is        *)
(* returned.  Checked under SpecClient.  Violated by the inventory script, *)
(* which prints the failure and appends nothing to the error log.          *)
(***************************************************************************)
OtherFailure(resp) ==
    resp.kind = "http" /\ resp.status \notin {200, 201} /\ ~IsRateLimit(resp)

C4_FailureLoggedNotRetried ==
    (Answered /\ OtherFailure(api.last))
        => /\ api.pc = "returned"
           /\ api.ret = Sentinel
           /\ log # <<>>
           /\ log[Len(log)] = Entry("Failed GET", api.url, api.last.status,
                                    api.last.text, 0)

C4_Details == script = "details" => C4_FailureLoggedNotRetried

\* What holds in both scripts: no retry, and the sentinel.
C4_NotRetried ==
    (Answered /\ OtherFailure(api.last)) => api.pc = "returned" /\ api.ret = Sentinel

(***************************************************************************)
(* C5.  github_api_get never propagates an exception: whatever the         *)
(* responses, a call that ends returns the decoded body or the failure     *)
(* sentinel.  Checked under SpecClient.  Violated by the inventory script: *)
(* for a rate-limit response whose reset time is in the past it calls      *)
(* time.sleep with a negative number, a ValueError nothing catches.        *)
(***************************************************************************)
C5_NoExceptionPropagates ==
    /\ api.pc # "raised"
    /\ api.pc = "returned" => (api.ret = Body(api) \/ api.ret = Sentinel)

C5_Details == script = "details" => C5_NoExceptionPropagates

(***************************************************************************)
(* C6.  In both detail scripts a repository whose aggregation raises does  *)
(* not abort the run: every repository of the listing is handled, each     *)
(* handled repository has either exactly one row and no 'Error processing' *)
(* entry, or no row and exactly one such entry; a repository whose record  *)
(* makes the aggregation raise has no row, and one whose aggregation       *)
(* cannot raise has its row.  Checked under Spec.                          *)
(***************************************************************************)
RowsOf(name) == Len(SelectSeq(report.rows, LAMBDA r : r.name = name))
ErrorsOf(name) ==
    Len(SelectSeq(log, LAMBDA e : e.kind = "Error processing" /\ e.n = name))

C6_FailingRepositoryIsSkipped ==
    (script \in {"details", "inventory"} /\ report.created) =>
        /\ \A i \in 1..Len(repos) :
             IF i < idx
             THEN /\ RowsOf(repos[i]) + ErrorsOf(repos[i]) = 1
                  /\ repos[i] \in srv.malformed => ErrorsOf(repos[i]) = 1
                  /\ (repos[i] \notin srv.malformed
                        /\ (script = "details" \/ NoFaultSoFar(MaxMainFaults)))
                       => RowsOf(repos[i]) = 1
             ELSE RowsOf(repos[i]) = 0 /\ ErrorsOf(repos[i]) = 0
        /\ pc = "done" => (idx = Len(repos) + 1 /\ exit = "0")

\* A run that ended with a failing repository before one that has its row.
C6_Witness ==
    /\ pc = "done"
    /\ script \in {"details", "inventory"}
    /\ \E i, j \in 1..Len(repos) :
         i < j /\ ErrorsOf(repos[i]) = 1 /\ RowsOf(repos[j]) = 1

\* The same with the exception coming from the API client.
C6_WitnessClientRaised ==
    /\ C6_Witness
    /\ srv.malformed = {}

(***************************************************************************)
(* C7.  The branch count and the tag count of a repository equal the       *)
(* number of branches, respectively tags, the remote API holds, whatever   *)
(* the number of pages.  Checked under SpecCounts.  Violated by the        *)
(* inventory script, whose get_branches and get_tags make one request      *)
(* without page parameters and count the first page.                       *)
(***************************************************************************)
C7_CountsAreTotals ==
    (pc = "done" /\ exit = "running" /\ NoFaultSoFar(MaxPageFaults)) =>
        /\ entry = "get_branches" => row.branch_count = srv.branches
        /\ entry = "get_tags" => row.tag_count = srv.tags

C7_Details == script = "details" => C7_CountsAreTotals

\* What the inventory script writes: the length of the first page.
C7_InventoryCountsFirstPage ==
    (script = "inventory" /\ pc = "done" /\ exit = "running"
       /\ NoFaultSoFar(MaxPageFaults)) =>
        /\ entry = "get_branches"
             => row.branch_count = Min(srv.branches, ServerDefaultPerPage)
        /\ entry = "get_tags" => row.tag_count = Min(srv.tags, ServerDefaultPerPage)

(***************************************************************************)
(* C8.  get_issue_counts returns, for each state, the number of entries    *)
(* of the issues listing that carry no pull_request marker, over all the   *)
(* pages of the listing.  Checked under SpecCounts.  Violated by the       *)
(* inventory script, which filters the first page only.                    *)
(***************************************************************************)
C8_IssuesExcludePullRequests ==
    (pc = "done" /\ exit = "running" /\ entry = "get_issue_counts"
       /\ NoFaultSoFar(MaxPageFaults)) =>
        /\ row.open_issues = srv.issues_open - Cardinality(srv.marked_open)
        /\ row.closed_issues = srv.issues_closed - Cardinality(srv.marked_closed)

C8_Details == script = "details" => C8_IssuesExcludePullRequests

\* What the inventory script returns: the unmarked entries of the first page.
C8_InventoryFiltersFirstPage ==
    (script = "inventory" /\ pc = "done" /\ exit = "running"
       /\ entry = "get_issue_counts" /\ NoFaultSoFar(MaxPageFaults)) =>
        /\ row.open_issues =
             Cardinality((1..Min(srv.issues_open, ServerDefaultPerPage))
                           \ srv.marked_open)
        /\ row.closed_issues =
             Cardinality((1..Min(srv.issues_closed, ServerDefaultPerPage))
                           \ srv.marked_closed)

(***************************************************************************)
(* C9.  When the organization or the token is missing from the             *)
(* configuration, a script issues no request, creates no report and ends   *)
(* with exit status 1.  Checked under Spec.  Violated by                   *)
(* fetch_repo_details.py: without ORG_NAME main returns normally (exit     *)
(* status 0), and GITHUB_TOKEN is never checked.                           *)
(***************************************************************************)
C9_MissingConfigurationIsFatal ==
    (~env.org \/ ~env.token) =>
        /\ ~anyRequest
        /\ ~report.created
        /\ pc = "done" => exit = "1"

C9_InventoryAndList == script # "details" => C9_MissingConfigurationIsFatal

\* The part about requests alone: fetch_repo_details.py runs without a token.
C9_NoRequestWithoutConfiguration == (~env.org \/ ~env.token) => ~anyRequest

(***************************************************************************)
(* C10.  When the commit request of a repository returns no data (the      *)
(* failure sentinel or an empty list), get_last_commit returns ("", "")    *)
(* without raising and changes no other column; the row written for the    *)
(* repository carries what get_last_commit returned; so every row of a     *)
(* repository without commits has empty strings in both columns, and such  *)
(* a repository has its row whenever nothing else fails.                   *)
(* Checked under Spec.                                                     *)
(***************************************************************************)
NoCommitData == Returned("get_last_commit") /\ ~Truthy(api.ret)

C10_Returns ==
    NoCommitData =>
        /\ pc' = "main_releases"
        /\ row' = [row EXCEPT !.date = "", !.user = ""]
        /\ UNCHANGED <<log, report, exit, idx>>

C10_RowWritten ==
    (script \in {"details", "inventory"} /\ Returned("main_releases")) =>
        /\ Len(report'.rows) = Len(report.rows) + 1
        /\ report'.rows[Len(report'.rows)] = [row EXCEPT !.releases = LenOrZero(api.ret)]

C10_Rows ==
    (script \in {"details", "inventory"} /\ srv.commits = 0) =>
        /\ \A k \in 1..Len(report.rows) :
             report.rows[k].date = "" /\ report.rows[k].user = ""
        /\ (pc = "done" /\ report.created
              /\ (script = "details" \/ NoFaultSoFar(MaxMainFaults)))
             => \A i \in 1..Len(repos) :
                  repos[i] \notin srv.malformed => RowsOf(repos[i]) = 1

C10_MissingCommitGivesEmptyStrings ==
    []C10_Rows /\ [][C10_Returns /\ C10_RowWritten]_vars

\* A finished run whose report has a row with empty commit columns for a
\* repository that has commits: its commit request ended in the sentinel.
C10_Witness ==
    /\ pc = "done"
    /\ script \in {"details", "inventory"}
    /\ srv.commits > 0
    /\ \E k \in 1..Len(report.rows) :
         report.rows[k].date = "" /\ report.rows[k].user = ""

\* The same for a repository without commits.
C10_WitnessEmptyRepository ==
    /\ pc = "done"
    /\ script \in {"details", "inventory"}
    /\ srv.commits = 0
    /\ report.rows # <<>>

(***************************************************************************)
(* C11.  A 403 response is taken for a rate-limit response (sleep, then    *)
(* retry) only when its remaining-quota header is zero or its body text    *)
(* indicates limiting; a 403 whose remaining-quota header is present with  *)
(* a non-zero value and whose body does not indicate limiting is an        *)
(* ordinary failure: the client stops at it and does not retry.            *)
(* Checked under SpecPaginate.  Violated by get_github_repos of the list   *)
(* script, which takes every 403 that carries the remaining-quota header,  *)
(* whatever its value, for a rate-limit response.                          *)
(***************************************************************************)
\* A 403 that is no rate-limit response by either sign.
OrdinaryForbidden(resp) ==
    /\ resp.kind = "http"
    /\ resp.status = 403
    /\ resp.remaining \notin {"absent", "0"}
    /\ ~HasRateLimitText(resp.text)

C11_RateLimitOnlyWhenIndicated ==
    Answered =>
        /\ LastOutcome = "rate_limit" =>
              (api.last.remaining = "0" \/ HasRateLimitText(api.last.text))
        /\ OrdinaryForbidden(api.last) =>
              (api.pc = "returned" /\ LastOutcome = "failed")

\* C11 restricted to github_api_get of the two detail scripts, where it holds.
C11_DetailScripts ==
    script \in {"details", "inventory"} => C11_RateLimitOnlyWhenIndicated

(***************************************************************************)
(* C12.  On every rate-limit response that carries a reset timestamp the   *)
(* client sleeps max(reset - now, 1) seconds: at least 1 second whatever   *)
(* the timestamp (also one equal to or earlier than the current time) and  *)
(* at least T seconds when the reset is T seconds ahead.  api.last.reset   *)
(* is reset - now.                                                         *)
(* Checked under SpecPaginate.  Violated by github_api_get of the          *)
(* inventory script, which sleeps reset - now without a floor: 0 seconds   *)
(* for a reset equal to the current time, and an exception raised by       *)
(* time.sleep for an earlier one.                                          *)
(***************************************************************************)
C12_SleepIsFlooredDifference ==
    (Answered /\ LastOutcome = "rate_limit" /\ api.last.has_reset) =>
        /\ api.pc # "raised"
        /\ api.slept = Max(api.last.reset, 1)
        /\ api.slept >= 1
        /\ api.last.reset > 0 => api.slept >= api.last.reset

\* C12 restricted to fetch_repo_details.py and fetch_repo_list.py, where it
\* holds.
C12_DetailsAndList ==
    script \in {"details", "list"} => C12_SleepIsFlooredDifference

(***************************************************************************)
(* The pagination loops on their own, each statement of the running        *)
(* script being executed in its turn: get_repos, get_github_repos,         *)
(* get_branches, get_tags, count_issues (under get_issue_counts) and the   *)
(* closed-PR loop of get_pr_counts.  The remote API holds finitely many    *)
(* items and fails at most MaxPageFaults times.                            *)
(***************************************************************************)
LoopTotals == {0, 1, PerPage, PerPage + 1, MaxPages * PerPage}

InitLoops ==
    /\ env = [org |-> TRUE, token |-> TRUE]
    /\ \/ \E s \in Scripts, n \in LoopTotals :
            InitWith(s, IF s = "list" THEN "get_github_repos" ELSE "get_repos",
                     [EmptyServer EXCEPT !.repos = n], MaxPageFaults)
       \/ \E f \in {"get_branches", "get_tags", "get_issue_counts"}, n \in LoopTotals :
            InitWith("details", f,
                     [EmptyServer EXCEPT !.branches = n, !.tags = n,
                                         !.issues_open = n, !.issues_closed = n],
                     MaxPageFaults)
       \/ \E n \in {0, 1, PerPage}, S \in {{}, {1}} :
            /\ InitWith("details", "get_pr_counts",
                        [EmptyServer EXCEPT !.pulls_closed = n, !.merged = S \cap (1..n)],
                        MaxPageFaults)

NextLoops ==
    \/ details_github_api_get
    \/ inventory_github_api_get
    \/ get_repos
    \/ list_get_github_repos
    \/ details_get_pr_counts
    \/ details_get_issue_counts
    \/ details_get_branches
    \/ details_get_tags
    \/ uncaught

SpecLoops == InitLoops /\ [][NextLoops]_vars /\ WF_vars(NextLoops)

(***************************************************************************)
(* C13.  When the remote API holds finitely many items, serves them page   *)
(* by page and fails only finitely often, every pagination loop ends       *)
(* (the function that runs it returns or raises), and the page a loop      *)
(* requests after a successful page is the next one: the page number goes  *)
(* up by exactly 1, only after a page was received, and a request that is  *)
(* repeated after a rate-limit response or a connection failure asks for   *)
(* the same page.  Checked under SpecLoops.                                *)
(***************************************************************************)
\* A request of a pagination loop is pending (primed: after the step).
PageRequest(a) == a.pc = "request" /\ a.per_page = PerPage

C13_PageStep ==
    \* the loops that call github_api_get: the next page of the same listing
    /\ (/\ api.pc = "returned" /\ api.per_page = PerPage
        /\ PageRequest(api') /\ api'.url = api.url /\ api'.state = api.state)
          => (api'.page = api.page + 1 /\ PyLen(api.ret) = PerPage)
    \* the closed-PR loop: the next page after the last pull request of a page
    /\ (api.url = "pull" /\ PageRequest(api'))
          => (api'.page = loc.page + 1 /\ Len(loc.prs) = PerPage)
    \* a request repeated, and the loop of get_github_repos
    /\ (PageRequest(api) /\ PageRequest(api') /\ api'.page # api.page)
          => /\ script = "list"
             /\ api'.page = api.page + 1
             /\ api'.trace[Len(api'.trace)] = "ok"
    /\ PageRequest(api') => loc'.page = api'.page

C13_PaginationTerminates == <>(pc = "done") /\ [][C13_PageStep]_vars

\* A loop that ended after MaxPages full pages and a failing response.
C13_Witness ==
    /\ pc = "done"
    /\ exit = "running"
    /\ loc.page = MaxPages + 1
    /\ faultsLeft = 0
    /\ anyRequest

(***************************************************************************)
(* C14.  In both detail scripts the header of the report is written        *)
(* exactly once and before any data row, rows are only ever appended (one  *)
(* at a time, the rows already written staying as they are), and the data  *)
(* rows are a subsequence of the organization listing in the order it was  *)
(* retrieved: every row is the row of a listed repository, rows appear in  *)
(* the order of the listing and no repository has more than one row.       *)
(* Checked under Spec.                                                     *)
(***************************************************************************)
\* The position of a repository in the listing main iterates over.
PositionOf(name) == CHOOSE i \in 1..Len(repos) : repos[i] = name

C14_Report ==
    script \in {"details", "inventory"} =>
        /\ report.headers = IF report.created THEN 1 ELSE 0
        /\ ~report.created => report.rows = <<>>
        /\ \A k \in 1..Len(report.rows) :
             \E i \in 1..Len(repos) : repos[i] = report.rows[k].name
        /\ \A j, k \in 1..Len(report.rows) :
             j < k => PositionOf(report.rows[j].name) < PositionOf(report.rows[k].name)

C14_AppendOnly ==
    script \in {"details", "inventory"} =>
        /\ report'.headers >= report.headers
        /\ report'.headers # report.headers =>
              (report.rows = <<>> /\ report'.rows = <<>>)
        /\ Len(report'.rows) \in {Len(report.rows), Len(report.rows) + 1}
        /\ SubSeq(report'.rows, 1, Len(report.rows)) = report.rows

C14_ReportInListingOrder == []C14_Report /\ [][C14_AppendOnly]_vars

\* A finished run with a row for each of two repositories.
C14_Witness ==
    /\ pc = "done"
    /\ script \in {"details", "inventory"}
    /\ Len(report.rows) = 2
    /\ report.rows[1].name # report.rows[2].name

\* A finished run in which the first repository of the listing has no row
\* and the second has one.
C14_WitnessSkipped ==
    /\ pc = "done"
    /\ script \in {"details", "inventory"}
    /\ Len(repos) = 2
    /\ Len(report.rows) = 1
    /\ report.rows[1].name = repos[2]

(***************************************************************************)
(* C15.  In every data row of the report 'Total Merged PRs' is at most     *)
(* 'Total Closed PRs', however many closed and merged pull requests the    *)
(* repository has.  Checked under Spec.  Violated by fetch_repo_details.py,*)
(* whose closed count is the length of a one-item probe (0 or 1) while its *)
(* merged count is taken over every page of the closed pull requests.      *)
(***************************************************************************)
C15_MergedAtMostClosed ==
    \A k \in 1..Len(report.rows) :
        report.rows[k].merged_prs <= report.rows[k].closed_prs

\* C15 restricted to fetch_repo_details_inventory.py, where it holds.
C15_Inventory == script = "inventory" => C15_MergedAtMostClosed

(***************************************************************************)
(* C16.  The release count of a row is the length of the first page of a   *)
(* probe that asks for one item per page: 'Total Releases' is 0 or 1 in    *)
(* every row of both detail scripts, and 0 when the probe returned the     *)
(* failure sentinel.  In fetch_repo_details.py 'Total Open PRs' and        *)
(* 'Total Closed PRs' come from one-item probes as well and are 0 or 1 in  *)
(* every row, whatever the real totals.  Checked under Spec.               *)
(***************************************************************************)
C16_Rows ==
    script \in {"details", "inventory"} =>
        \A k \in 1..Len(report.rows) :
            /\ report.rows[k].releases \in {0, 1}
            /\ script = "details" =>
                  /\ report.rows[k].open_prs \in {0, 1}
                  /\ report.rows[k].closed_prs \in {0, 1}

\* The step that writes a row: its release count is that of the probe just
\* answered.
C16_ProbeCounted ==
    (/\ script \in {"details", "inventory"}
     /\ Returned("main_releases")
     /\ Len(report'.rows) = Len(report.rows) + 1)
        => /\ api.url = "releases"
           /\ api.per_page = 1
           /\ report'.rows[Len(report'.rows)].releases =
                 IF api.ret = Sentinel THEN 0 ELSE PyLen(api.ret)

C16_WitnessSentinel ==
    /\ script \in {"details", "inventory"}
    /\ srv.releases > 0
    /\ \E k \in 1..Len(report.rows) : report.rows[k].releases = 0

(***************************************************************************)
(* The paginators of the organization listing on their own, and the        *)
(* scripts as they run on an organization of at most one repository.       *)
(***************************************************************************)
InitPartial ==
    \/ InitPaginate
    \/ /\ env = [org |-> TRUE, token |-> TRUE]
       /\ \E s \in Scripts, n \in 0..1 :
            InitWith(s, "main", [OneOfEach EXCEPT !.repos = n], MaxPageFaults)

SpecPartial == InitPartial /\ [][Next]_vars

(***************************************************************************)
(* C17.  When the request for page k > 1 of the organization listing ends  *)
(* in the failure sentinel (in get_github_repos: in the "break" of the     *)
(* branch for a status other than 200) after pages 1..k-1 were fetched,    *)
(* the paginator returns the concatenation of pages 1..k-1 as if the       *)
(* listing were complete: the items accumulated are kept and no exception  *)
(* is raised.  The result is a prefix of the full listing, and a strict    *)
(* one exactly when the listing holds more than (k-1)*100 items: when page *)
(* k would have been empty the result is the full listing.  When page 1    *)
(* fails the result is empty, and main of both detail scripts writes no    *)
(* report file.  Checked under SpecPartial; loc.page is k.                 *)
(***************************************************************************)
\* Pages 1..k-1 of the organization listing.
PagesBefore == Listing(Min(srv.repos, (loc.page - 1) * PerPage))

\* get_repos has received the failure sentinel for page k.
RequestFailed ==
    /\ script \in {"details", "inventory"}
    /\ Returned("get_repos")
    /\ LastOutcome # "ok"

\* get_github_repos has left its loop at the failing answer for page k.
ListRequestFailed ==
    /\ script = "list"
    /\ api.pc = "returned"
    /\ Answered
    /\ LastOutcome = "failed"

C17_Kept ==
    /\ pc \in {"get_repos", "get_github_repos"} => loc.acc = PagesBefore
    /\ RequestFailed => api.ret = Sentinel
    /\ ListRequestFailed => (repos = PagesBefore /\ exit # "crash")
    /\ (script \in {"details", "inventory"} /\ entry = "main" /\ repos = <<>>)
          => ~report.created

C17_Returns ==
    RequestFailed =>
        /\ repos' = PagesBefore
        /\ pc' \in {"done", "main_repos"}
        /\ api'.pc # "raised"
        /\ exit' = "running"
        /\ Len(repos') < srv.repos <=> srv.repos > (loc.page - 1) * PerPage

FullPagesBefore == loc.page > 1 /\ (loc.page - 1) * PerPage <= srv.repos

C17_WitnessList ==
    /\ ListRequestFailed
    /\ pc = "done"
    /\ loc.page = 2
    /\ repos = Listing(PerPage)
    /\ srv.repos > PerPage

\* A detail script has ended without a report: the request for page 1 of
\* an organization with a repository failed.
C17_WitnessNoReport ==
    /\ script \in {"details", "inventory"}
    /\ entry = "main"
    /\ pc = "done"
    /\ srv.repos = 1
    /\ repos = <<>>
    /\ anyRequest
    /\ ~report.created

====
